---- MODULE Spec2Model ----
(***************************************************************************)
(* Model of components.js: the ring-manager system, the ring-focus         *)
(* component (click to focus, close to return) and the drag-rotate         *)
(* component (cumulative Y-axis rotation).                                 *)
(*                                                                         *)
(* Numbers are fixed point: lengths and scales in 1/1000 of a unit, angles *)
(* in milliradians, times in milliseconds, the normalised progress t and   *)
(* the eased progress e in 1/100.  A vector is a tuple <<x, y, z>>.        *)
(***************************************************************************)
EXTENDS Integers, Sequences, FiniteSets, TLC

\* ------------------------------------------------------------------ bounds
\* Number of ring entities in the scene.
NumRings == 2
\* Number of user events (click, close, pointer, removal) in one run.
MaxInputs == 5
\* Milliseconds between two display frames.
FrameMs == 300

\* ------------------------------------------------------- program constants
sensitivity == 12
duration == 600

Rings == 1..NumRings
\* client x-coordinates a pointer event may carry
PointerXs == {100, 150}
\* how far performance.now() read in an event handler may lie after the
\* timestamp handed to the callbacks of the frame that follows it
HandlerLags == {0, 100}

\* camera pose read at click time
cameraPos == <<0, 1600, 0>>
cameraDir == <<0, 0, -1000>>

\* transform of ring r in the scene description, read by init
scenePos(r) == <<400 * (r - 2), 200 + 300 * (r - 1), -2000>>
sceneScale(r) == <<1000, 1000, 1000>>
sceneRot(r) == <<1571, 0, 0>>

NoEl == 0

VARIABLES
  busy, focusedEl,                        \* ring-manager
  originalPos, originalScale, originalRot,\* ring-focus baseline
  isFocused, isAnimating,                 \* ring-focus flags
  position, scale, rotation,              \* el.object3D
  anim,                                   \* pending requestAnimationFrame callback of each ring
  dragging, startX, startYaw, attached,   \* drag-rotate
  moveListening,                          \* window mousemove/touchmove listener installed
  removed,                                \* remove() of both components has run
  now,                                    \* clock, ms since the last idle frame
  inputs,                                 \* user events so far
  ignored,                                \* kind of the last event, if its handler returned early
  emitted,                                \* notification dispatched by the last step, and
                                          \* the ring whose callback dispatched it
  lastNote,                               \* most recent notification dispatched
  focusCount                              \* focus animations each ring has completed

vars == <<busy, focusedEl, originalPos, originalScale, originalRot, isFocused,
          isAnimating, position, scale, rotation, anim, dragging, startX,
          startYaw, attached, moveListening, removed, now, inputs,
          ignored, emitted, lastNote, focusCount>>

managerVars == <<busy, focusedEl>>
baselineVars == <<originalPos, originalScale, originalRot>>
focusVars == <<isFocused, isAnimating, anim>>
transformVars == <<position, scale, rotation>>
dragVars == <<dragging, startX, startYaw, attached, moveListening>>

\* ------------------------------------------------------------- arithmetic
Min(a, b) == IF a < b THEN a ELSE b
Max(a, b) == IF a > b THEN a ELSE b
Cube(a) == a * a * a

\* THREE.Vector3.lerpVectors(v1, v2, alpha): v1 + (v2 - v1) * alpha
lerpVectors(v1, v2, e) ==
  <<v1[1] + ((v2[1] - v1[1]) * e) \div 100,
    v1[2] + ((v2[2] - v1[2]) * e) \div 100,
    v1[3] + ((v2[3] - v1[3]) * e) \div 100>>

\* THREE.MathUtils.lerp(x, y, t): (1 - t) * x + t * y
lerp(x, y, e) == ((100 - e) * x + e * y) \div 100

\* progress over half the duration
progress_halfDuration(time, t0) == Min(100, ((time - t0) * 200) \div duration)

\* t = Math.min(1, (time - t0) / duration)
progress(time, t0) == Min(100, ((time - t0) * 100) \div duration)

\* easeOutCubic: 1 - (1 - t)^3
easeOut(t) == 100 - Cube(100 - t) \div 10000

\* easeInOutCubic: t < 0.5 ? 4t^3 : 1 - (-2t + 2)^3 / 2
easeInOut(t) ==
  IF t < 50 THEN (4 * Cube(t)) \div 10000
            ELSE 100 - Cube(200 - 2 * t) \div 20000

NoAnim == [kind |-> "none", t0 |-> 0,
           startPos |-> <<0, 0, 0>>, endPos |-> <<0, 0, 0>>,
           startScale |-> <<0, 0, 0>>, endScale |-> <<0, 0, 0>>,
           startRot |-> <<0, 0, 0>>, endRot |-> <<0, 0, 0>>]

\* no notification dispatched
NoNote == [note |-> "none", ring |-> NoEl]

\* ------------------------------------------------------------------- init
Init ==
  /\ busy = FALSE
  /\ focusedEl = NoEl
  /\ originalPos = [r \in Rings |-> scenePos(r)]
  /\ originalScale = [r \in Rings |-> sceneScale(r)]
  /\ originalRot = [r \in Rings |-> sceneRot(r)]
  /\ isFocused = [r \in Rings |-> FALSE]
  /\ isAnimating = [r \in Rings |-> FALSE]
  /\ position = [r \in Rings |-> scenePos(r)]
  /\ scale = [r \in Rings |-> sceneScale(r)]
  /\ rotation = [r \in Rings |-> sceneRot(r)]
  /\ anim = [r \in Rings |-> NoAnim]
  /\ dragging = [r \in Rings |-> FALSE]
  /\ startX = [r \in Rings |-> 0]
  /\ startYaw = [r \in Rings |-> sceneRot(r)[2]]
  /\ attached = [r \in Rings |-> FALSE]
  /\ moveListening = [r \in Rings |-> FALSE]
  /\ removed = [r \in Rings |-> FALSE]
  /\ now = 0
  /\ inputs = 0
  /\ ignored = "none"
  /\ emitted = NoNote
  /\ lastNote = "none"
  /\ focusCount = [r \in Rings |-> 0]

\* ------------------------------------------------------------- ring-focus
\* onClick without its first early return (the manager's busy check)
clickAccepted_noBusyCheck(r) == ~(isFocused[r] \/ isAnimating[r])

\* onClick runs past its two early returns
clickAccepted(r) == ~busy /\ ~(isFocused[r] \/ isAnimating[r])

\* target = camPos + camDir * 1.6, y floored at originalPos.y + 1.2
focusTarget(r) ==
  LET t == <<cameraPos[1] + (cameraDir[1] * 16) \div 10,
             cameraPos[2] + (cameraDir[2] * 16) \div 10,
             cameraPos[3] + (cameraDir[3] * 16) \div 10>>
  IN <<t[1], Max(t[2], originalPos[r][2] + 1200), t[3]>>

\* target scale of 1.45 added to the start scale instead of multiplying it
focusScale_added(s) == <<s[1] + 1450, s[2] + 1450, s[3] + 1450>>

\* startScale.clone().multiplyScalar(1.45)
focusScale(s) == <<(s[1] * 145) \div 100, (s[2] * 145) \div 100, (s[3] * 145) \div 100>>

\* the closure `animate` handed to requestAnimationFrame by onClick
animateClosure(r, t0) ==
  [kind |-> "animate", t0 |-> t0,
   startPos |-> position[r], endPos |-> focusTarget(r),
   startScale |-> scale[r], endScale |-> focusScale(scale[r]),
   startRot |-> rotation[r], endRot |-> rotation[r]]

\* click event on ring r's entity
Click(r, lag) ==
  /\ inputs < MaxInputs
  /\ inputs' = inputs + 1
  /\ emitted' = NoNote
  /\ IF ~removed[r] /\ clickAccepted(r)
       THEN /\ busy' = TRUE
            /\ isAnimating' = [isAnimating EXCEPT ![r] = TRUE]
            /\ focusedEl' = r
            /\ anim' = [anim EXCEPT ![r] = animateClosure(r, now + lag)]
            /\ ignored' = "none"
       ELSE /\ UNCHANGED <<busy, isAnimating, focusedEl, anim>>
            /\ ignored' = IF removed[r] THEN "none" ELSE "click"
  /\ UNCHANGED <<baselineVars, isFocused, transformVars, dragVars, removed,
                 now, lastNote, focusCount>>

\* onClose without its second early return (the manager's busy check)
closeAccepted_noBusyCheck(r, b) == isFocused[r]

\* onClose runs past its two early returns; b is the manager's busy flag as
\* the handler finds it
closeAccepted(r, b) == isFocused[r] /\ ~b

\* animateBack that returns position and scale but leaves the rotation as
\* the drags left it
animateBackClosure_keepRotation(r, t0) ==
  [kind |-> "animateBack", t0 |-> t0,
   startPos |-> position[r], endPos |-> originalPos[r],
   startScale |-> scale[r], endScale |-> originalScale[r],
   startRot |-> rotation[r], endRot |-> rotation[r]]

\* the closure `animateBack` handed to requestAnimationFrame by onClose
animateBackClosure(r, t0) ==
  [kind |-> "animateBack", t0 |-> t0,
   startPos |-> position[r], endPos |-> originalPos[r],
   startScale |-> scale[r], endScale |-> originalScale[r],
   startRot |-> rotation[r], endRot |-> originalRot[r]]

\* onClose of ring r applied to s = [busy, isAnimating, anim]
onClose(r, s, t0) ==
  IF closeAccepted(r, s.busy)
    THEN [busy |-> TRUE,
          isAnimating |-> [s.isAnimating EXCEPT ![r] = TRUE],
          anim |-> [s.anim EXCEPT ![r] = animateBackClosure(r, t0)]]
    ELSE s

\* window.dispatchEvent('close-focused-ring'): the listeners of rings
\* r, r+1, ... run one after the other, in the order they were added
RECURSIVE dispatchClose(_, _, _)
dispatchClose(r, s, t0) ==
  IF r > NumRings THEN s
  ELSE dispatchClose(r + 1, IF removed[r] THEN s ELSE onClose(r, s, t0), t0)

\* the 'close-focused-ring' notification
Close(lag) ==
  /\ inputs < MaxInputs
  /\ inputs' = inputs + 1
  /\ emitted' = NoNote
  /\ LET s == dispatchClose(1, [busy |-> busy, isAnimating |-> isAnimating,
                                anim |-> anim], now + lag)
     IN /\ busy' = s.busy
        /\ isAnimating' = s.isAnimating
        /\ anim' = s.anim
        /\ ignored' = IF s.anim = anim /\ \E r \in Rings : ~removed[r]
                         THEN "close" ELSE "none"
  /\ UNCHANGED <<focusedEl, baselineVars, isFocused, transformVars, dragVars,
                 removed, now, lastNote, focusCount>>

\* normalised progress at which a callback stops re-requesting a frame
finished(t) == ~(t < 100)

\* eased progress of ring r's pending callback when run with timestamp time
easedProgress(a, time) ==
  IF a.kind = "animate" THEN easeOut(progress(time, a.t0))
                        ELSE easeInOut(progress(time, a.t0))

\* rotation after a callback: animate leaves it alone, animateBack lerps
\* each Euler component
frameRotation(r, a, e) ==
  IF a.kind = "animateBack"
    THEN <<lerp(a.startRot[1], a.endRot[1], e),
           lerp(a.startRot[2], a.endRot[2], e),
           lerp(a.startRot[3], a.endRot[3], e)>>
    ELSE rotation[r]

\* a callback that does not hand itself to requestAnimationFrame again
nextCallback_notRequested(a, time) == NoAnim

\* the callback pending after callback a has run with timestamp time: a
\* itself while t < 1 (it re-requests a frame), none once it has finished
nextCallback(a, time) ==
  IF finished(progress(time, a.t0)) THEN NoAnim ELSE a

Pending(r) == anim[r].kind # "none"
\* ring r's callback runs in this frame and takes its else branch
Completes(r, time) == Pending(r) /\ finished(progress(time, anim[r].t0))

\* drag-rotate.tick: the value of _attached after the tick
tickAttached(r) ==
  IF dragging[r] /\ ~attached[r] THEN TRUE
  ELSE IF ~dragging[r] /\ attached[r] THEN FALSE
  ELSE attached[r]

\* tick without its else-if branch: the move listeners are never removed
tickListening_neverRemoved(r) ==
  IF dragging[r] /\ ~attached[r] THEN TRUE ELSE moveListening[r]

\* drag-rotate.tick: whether the window move listeners are installed after it
tickListening(r) ==
  IF dragging[r] /\ ~attached[r] THEN TRUE
  ELSE IF ~dragging[r] /\ attached[r] THEN FALSE
  ELSE moveListening[r]

\* One display frame: the pending requestAnimationFrame callbacks run with
\* the frame's timestamp, and every live drag-rotate component ticks.  The
\* clock is read only as time - t0 by a pending callback and no t0 outlives
\* its callback, so the clock advances while a callback stays pending and is
\* kept relative to the last frame that left none pending.
Frame ==
  /\ position' = [r \in Rings |->
       IF Pending(r)
         THEN lerpVectors(anim[r].startPos, anim[r].endPos, easedProgress(anim[r], now))
         ELSE position[r]]
  /\ scale' = [r \in Rings |->
       IF Pending(r)
         THEN lerpVectors(anim[r].startScale, anim[r].endScale, easedProgress(anim[r], now))
         ELSE scale[r]]
  /\ rotation' = [r \in Rings |->
       IF Pending(r) THEN frameRotation(r, anim[r], easedProgress(anim[r], now))
                     ELSE rotation[r]]
  /\ anim' = [r \in Rings |-> IF Pending(r) THEN nextCallback(anim[r], now) ELSE anim[r]]
  /\ isAnimating' = [r \in Rings |-> IF Completes(r, now) THEN FALSE ELSE isAnimating[r]]
  /\ isFocused' = [r \in Rings |->
       IF Completes(r, now) THEN anim[r].kind = "animate" ELSE isFocused[r]]
  /\ busy' = IF \E r \in Rings : Completes(r, now) THEN FALSE ELSE busy
  /\ focusedEl' = IF \E r \in Rings : Completes(r, now) /\ anim[r].kind = "animateBack"
                    THEN NoEl ELSE focusedEl
  /\ emitted' = IF \E r \in Rings : Completes(r, now)
                  THEN LET r == CHOOSE q \in Rings : Completes(q, now)
                       IN [note |-> IF anim[r].kind = "animate" THEN "show" ELSE "hide",
                           ring |-> r]
                  ELSE NoNote
  /\ lastNote' = IF emitted'.note = "none" THEN lastNote ELSE emitted'.note
  /\ attached' = [r \in Rings |-> IF removed[r] THEN attached[r] ELSE tickAttached(r)]
  /\ moveListening' = [r \in Rings |->
       IF removed[r] THEN moveListening[r] ELSE tickListening(r)]
  /\ now' = IF \E r \in Rings : anim'[r].kind # "none" THEN now + FrameMs ELSE 0
  /\ ignored' = "none"
  /\ focusCount' = [r \in Rings |->
       IF Completes(r, now) /\ anim[r].kind = "animate" THEN focusCount[r] + 1
                                                         ELSE focusCount[r]]
  /\ UNCHANGED <<baselineVars, dragging, startX, startYaw, removed, inputs>>

\* ------------------------------------------------------------ drag-rotate
\* onPointerDown without its early return (the manager's busy check)
dragStartAccepted_noBusyCheck(r) == TRUE

\* onPointerDown runs past its early return
dragStartAccepted(r) == ~busy

\* onPointerDown that keeps the yaw recorded by init or by an earlier press
pressYaw_stale(r) == startYaw[r]

\* the yaw onPointerDown records in startYaw
pressYaw(r) == rotation[r][2]

\* mousedown / touchstart on ring r's entity at client x
PointerDown(r, x) ==
  /\ inputs < MaxInputs
  /\ inputs' = inputs + 1
  /\ emitted' = NoNote
  /\ IF ~removed[r] /\ dragStartAccepted(r)
       THEN /\ dragging' = [dragging EXCEPT ![r] = TRUE]
            /\ startX' = [startX EXCEPT ![r] = x]
            /\ startYaw' = [startYaw EXCEPT ![r] = pressYaw(r)]
            /\ ignored' = "none"
       ELSE /\ UNCHANGED <<dragging, startX, startYaw>>
            /\ ignored' = IF removed[r] THEN "none" ELSE "down"
  /\ UNCHANGED <<managerVars, baselineVars, focusVars, transformVars, attached,
                 moveListening, removed, now, lastNote, focusCount>>

\* onPointerMove runs past its early return
moveAccepted(r) == dragging[r]

\* the delta added to the ring's current yaw instead of the recorded one
dragYaw_fromCurrent(r, x) == rotation[r][2] + (x - startX[r]) * sensitivity

\* the yaw onPointerMove assigns
dragYaw(r, x) == startYaw[r] + (x - startX[r]) * sensitivity

\* onPointerMove that writes the pitch (rotation.x) instead of the yaw
onPointerMove_wrongAxis(r, x) ==
  IF moveAccepted(r) THEN <<dragYaw(r, x), rotation[r][2], rotation[r][3]>>
                     ELSE rotation[r]

\* rotation of ring r after its onPointerMove has handled a move at x
onPointerMove(r, x) ==
  IF moveAccepted(r) THEN <<rotation[r][1], dragYaw(r, x), rotation[r][3]>>
                     ELSE rotation[r]

\* mousemove / touchmove on the window at client x
PointerMove(x) ==
  /\ inputs < MaxInputs
  /\ inputs' = inputs + 1
  /\ ignored' = "none"
  /\ emitted' = NoNote
  /\ rotation' = [r \in Rings |->
       IF moveListening[r] THEN onPointerMove(r, x) ELSE rotation[r]]
  /\ UNCHANGED <<managerVars, baselineVars, focusVars, position, scale, dragVars,
                 removed, now, lastNote, focusCount>>

\* onPointerUp that leaves the dragging flag as it is
onPointerUp_keepsDragging(r) == dragging[r]

\* dragging flag of ring r after its onPointerUp
onPointerUp(r) == FALSE

\* mouseup / touchend on the window
PointerUp ==
  /\ inputs < MaxInputs
  /\ inputs' = inputs + 1
  /\ ignored' = "none"
  /\ emitted' = NoNote
  /\ dragging' = [r \in Rings |-> IF removed[r] THEN dragging[r] ELSE onPointerUp(r)]
  /\ UNCHANGED <<managerVars, baselineVars, focusVars, transformVars, startX,
                 startYaw, attached, moveListening, removed, now, lastNote, focusCount>>

\* --------------------------------------------------------------- teardown
\* drag-rotate.remove that leaves the window move listeners installed
removeListening_kept(r) == moveListening[r]

\* drag-rotate.remove: whether ring r's window move listeners stay installed
removeListening(r) == IF attached[r] THEN FALSE ELSE moveListening[r]

\* ring r's entity is destroyed: ring-focus.remove and drag-rotate.remove run
Remove(r) ==
  /\ inputs < MaxInputs
  /\ ~removed[r]
  /\ inputs' = inputs + 1
  /\ ignored' = "none"
  /\ emitted' = NoNote
  /\ removed' = [removed EXCEPT ![r] = TRUE]
  /\ moveListening' = [moveListening EXCEPT ![r] = removeListening(r)]
  /\ UNCHANGED <<managerVars, baselineVars, focusVars, transformVars, dragging,
                 startX, startYaw, attached, now, lastNote, focusCount>>

\* ---------------------------------------------------------- specification
Next ==
  \/ \E r \in Rings, lag \in HandlerLags : Click(r, lag)
  \/ \E lag \in HandlerLags : Close(lag)
  \/ Frame
  \/ \E r \in Rings, x \in PointerXs : PointerDown(r, x)
  \/ \E x \in PointerXs : PointerMove(x)
  \/ PointerUp
  \/ \E r \in Rings : Remove(r)

Spec == Init /\ [][Next]_vars

\* Frames keep coming while the page is shown.  Liveness is checked over
\* runs with two user events fewer than MaxInputs.
FairNext ==
  \/ \E r \in Rings, lag \in HandlerLags : Click(r, lag) /\ inputs' + 2 <= MaxInputs
  \/ \E lag \in HandlerLags : Close(lag) /\ inputs' + 2 <= MaxInputs
  \/ Frame
  \/ \E r \in Rings, x \in PointerXs : PointerDown(r, x) /\ inputs' + 2 <= MaxInputs
  \/ \E x \in PointerXs : PointerMove(x) /\ inputs' + 2 <= MaxInputs
  \/ PointerUp /\ inputs' + 2 <= MaxInputs
  \/ \E r \in Rings : Remove(r) /\ inputs' + 2 <= MaxInputs

FairSpec == Init /\ [][FairNext]_vars /\ WF_vars(Frame)

\* ----------------------------------------------------------------- claims
Active(r) == isFocused[r] \/ isAnimating[r]

\* C1: at most one ring is focused or animating (isFocused or isAnimating)
\* in any reachable state.
C1_SingleActiveRing ==
  \A r1, r2 \in Rings : (Active(r1) /\ Active(r2)) => r1 = r2

\* C2: on the step that completes a close animation of ring r (isFocused[r]
\* becomes false, busy is cleared) position, scale and every rotation axis
\* of r equal the baseline captured at init, whatever was dragged before;
\* no step changes a baseline value.
C2_RoundTrip ==
  [][/\ \A r \in Rings :
          (isFocused[r] /\ ~isFocused'[r]) =>
            /\ ~busy'
            /\ position'[r] = originalPos[r]
            /\ scale'[r] = originalScale[r]
            /\ rotation'[r] = originalRot[r]
     /\ originalPos' = originalPos
     /\ originalScale' = originalScale
     /\ originalRot' = originalRot
     /\ \A r \in Rings : /\ originalPos[r] = scenePos(r)
                         /\ originalScale[r] = sceneScale(r)
                         /\ originalRot[r] = sceneRot(r)]_vars

\* a close animation of ring r has just completed, and r had been dragged
\* away from its baseline yaw while it was focused: the drag in progress
\* started, after the focus position was reached, from a yaw that was not
\* the baseline yaw
C2_Witness ==
  \E r \in Rings :
    /\ emitted = [note |-> "hide", ring |-> r]
    /\ ~isFocused[r] /\ ~busy
    /\ startYaw[r] # originalRot[r][2]
    /\ rotation[r] = originalRot[r]
    /\ position[r] = originalPos[r]
    /\ scale[r] = originalScale[r]

\* C3: a click on ring r while the session is busy, or r is focused or
\* animating, changes neither busy, the focused reference, any ring's flags,
\* any transform nor the pending animations, and emits no notification.
\* Written as: a step that changes one of them is not such a click.
C3_ClickNoOp ==
  [][\/ /\ UNCHANGED <<busy, focusedEl, isFocused, isAnimating, position,
                        scale, rotation, anim>>
        /\ emitted' = NoNote
     \/ \A r \in Rings, lag \in HandlerLags :
          ~((busy \/ isFocused[r] \/ isAnimating[r]) /\ Click(r, lag))]_vars

\* a click has just been ignored while an animation was in flight
C3_Witness ==
  /\ ignored = "click"
  /\ busy
  /\ \E r \in Rings : isAnimating[r]

\* some pointer-down, pointer-move or pointer-up event is this step
PointerEvent ==
  \/ \E r \in Rings, x \in PointerXs : PointerDown(r, x)
  \/ \E x \in PointerXs : PointerMove(x)
  \/ PointerUp

\* C4 as stated: every pointer-move at x while ring r is dragging sets r's
\* yaw to startYaw + (x - startX) * sensitivity, also before the next tick.
C4_EveryMoveSetsYaw ==
  [][\A x \in PointerXs : PointerMove(x) =>
       \A r \in Rings : (dragging[r] /\ ~removed[r]) =>
         rotation'[r][2] = startYaw[r] + (x - startX[r]) * sensitivity]_vars

\* C4 amended: a pointer-move at x sets the yaw of a dragging ring r to
\* startYaw + (x - startX) * sensitivity when r's window move listeners are
\* installed (tick installs them on the first frame after the pointer-down),
\* and leaves the rotation of r unchanged when they are not.
C4_DeliveredMoveSetsYaw ==
  [][\A x \in PointerXs : PointerMove(x) =>
       \A r \in Rings :
         /\ (dragging[r] /\ moveListening[r]) =>
              rotation'[r][2] = startYaw[r] + (x - startX[r]) * sensitivity
         /\ ~moveListening[r] => rotation'[r] = rotation[r]]_vars

\* a delivered move has turned a dragging ring away from the yaw its press
\* recorded
C4_Witness ==
  \E r \in Rings :
    /\ dragging[r] /\ moveListening[r] /\ ~Pending(r)
    /\ rotation[r][2] # startYaw[r]
    /\ \E x \in PointerXs : rotation[r][2] = startYaw[r] + (x - startX[r]) * sensitivity

\* C5 as stated: every pointer-down handled by ring r records r's current
\* yaw in startYaw.
C5_EveryPressRecordsYaw ==
  [][\A r \in Rings, x \in PointerXs :
       (PointerDown(r, x) /\ ~removed[r]) => startYaw'[r] = rotation[r][2]]_vars

\* C5 amended: a pointer-down on ring r accepted while the session is not
\* busy records r's current yaw and the press x and changes no rotation;
\* pointer-up changes no rotation; and a ring's yaw changes only on a frame
\* of its own close animation or on a delivered move, which sets it to the
\* recorded yaw plus (x - press x) * sensitivity.  So over accepted gestures
\* with no close animation in between the yaw is the yaw before the first
\* gesture plus the sum of the gestures' (last delivered x - press x) *
\* sensitivity.
C5_Cumulative ==
  [][/\ \A r \in Rings, x \in PointerXs :
          (~removed[r] /\ ~busy /\ PointerDown(r, x)) =>
            /\ startYaw'[r] = rotation[r][2]
            /\ startX'[r] = x
            /\ dragging'[r]
            /\ rotation' = rotation
     /\ PointerUp => rotation' = rotation
     /\ \A r \in Rings :
          rotation'[r][2] # rotation[r][2] =>
            \/ anim[r].kind = "animateBack"
            \/ /\ dragging[r] /\ moveListening[r]
               /\ \E x \in PointerXs :
                    /\ PointerMove(x)
                    /\ rotation'[r][2] = startYaw[r] + (x - startX[r]) * sensitivity]_vars

\* a second gesture on a ring that was never focused: its press recorded the
\* yaw the first gesture left, and its move has added to it
C5_Witness ==
  \E r \in Rings :
    /\ dragging[r] /\ moveListening[r]
    /\ focusedEl = NoEl /\ lastNote = "none" /\ ~busy
    /\ startYaw[r] = originalRot[r][2] + 50 * sensitivity
    /\ rotation[r][2] = originalRot[r][2] + 100 * sensitivity

\* C6: pointer-down, pointer-move and pointer-up change no position, scale,
\* rotation.x or rotation.z, and neither busy, the focused reference nor any
\* isFocused / isAnimating flag.  Written as: a step that changes one of
\* them is not a pointer event.
C6_DragYawOnly ==
  [][\/ /\ UNCHANGED <<position, scale, busy, focusedEl, isFocused, isAnimating>>
        /\ \A r \in Rings : /\ rotation'[r][1] = rotation[r][1]
                            /\ rotation'[r][3] = rotation[r][3]
     \/ ~PointerEvent]_vars

\* a focused ring, at rest at its focus target, has been turned by a drag
C6_Witness ==
  \E r \in Rings :
    /\ isFocused[r] /\ ~busy
    /\ position[r] = focusTarget(r)
    /\ rotation[r][2] # originalRot[r][2]
    /\ rotation[r][1] = originalRot[r][1]
    /\ rotation[r][3] = originalRot[r][3]

\* C7: a close notification starts a close animation only for the ring the
\* manager's focused reference names, and only when the session is not
\* busy; otherwise it changes no state.
C7_CloseOnlyManagerFocused ==
  [][\A lag \in HandlerLags : Close(lag) =>
       \A r \in Rings :
         (anim'[r] # anim[r] \/ isAnimating'[r] # isAnimating[r] \/ busy' # busy)
           => (focusedEl # NoEl /\ ~busy /\ (anim'[r] # anim[r] => r = focusedEl))]_vars

C9_AnimationsComplete ==
  /\ [](/\ busy => <>~busy
        /\ \A r \in Rings :
             /\ (anim[r].kind = "animate") => <>(isFocused[r] /\ ~isAnimating[r])
             /\ (anim[r].kind = "animateBack") => <>(~isFocused[r] /\ ~isAnimating[r]))
  /\ [][\A r \in Rings : Pending(r) =>
          \/ anim'[r] = anim[r] /\ isAnimating'[r] /\ busy'
          \/ /\ anim'[r] = NoAnim
             /\ now - anim[r].t0 >= duration
             /\ inputs' = inputs]_vars

\* an animation is in flight, past its first frame, on a ring whose
\* components were removed
C9_Witness ==
  \E r \in Rings :
    /\ Pending(r) /\ removed[r] /\ busy
    /\ now > anim[r].t0 + FrameMs

\* C10: while the session is busy no pointer event changes any ring's yaw.
C10_NoYawChangeWhileBusy ==
  [][(busy /\ PointerEvent) =>
       \A r \in Rings : rotation'[r][2] = rotation[r][2]]_vars

\* an input event (click, close, pointer event or removal) is this step
InputEvent == inputs' = inputs + 1

\* this step is a display frame: every other action counts an input
FrameStep == inputs' = inputs

\* C11: a pointer-down on ring r while the session is busy leaves r's
\* dragging flag, startX and startYaw unchanged (and all other state): the
\* ring does not enter Dragging.  Written as: a step from a busy state that
\* changes any of them is not a pointer-down.
C11_BusyPressIgnored ==
  [][\/ ~busy
     \/ UNCHANGED <<dragging, startX, startYaw, attached, moveListening,
                    transformVars, managerVars, focusVars>>
     \/ \A r \in Rings, x \in PointerXs : ~PointerDown(r, x)]_vars

\* a pointer-down has just been ignored on a live ring that was not dragging,
\* during an animation
C11_Witness ==
  /\ ignored = "down"
  /\ busy
  /\ \E r \in Rings : ~removed[r] /\ ~dragging[r] /\ startX[r] = 0

\* C12 as stated: a ring's window move listeners are installed only while
\* the ring is dragging.
C12_ListenersOnlyWhileDragging ==
  \A r \in Rings : (moveListening[r] \/ (attached[r] /\ ~removed[r])) => dragging[r]

\* C12 amended: the move listeners follow the drag state frame by frame.
\* After every tick of a live ring its listeners are installed exactly if it
\* is dragging; only a tick installs them and only a tick or remove() takes
\* them away, so pointer-up leaves them installed until the next tick; and
\* for a live ring _attached tells whether they are installed.
C12_ListenersFollowTick ==
  [][/\ FrameStep => \A r \in Rings : ~removed[r] =>
                       /\ moveListening'[r] = dragging[r]
                       /\ attached'[r] = dragging[r]
     /\ \A r \in Rings :
          /\ (~moveListening[r] /\ moveListening'[r]) => (Frame /\ dragging[r])
          /\ (moveListening[r] /\ ~moveListening'[r]) =>
               \/ Frame /\ ~dragging[r]
               \/ Remove(r)
          /\ ~removed'[r] => moveListening'[r] = attached'[r]
          /\ removed'[r] => ~moveListening'[r]
     /\ (\E r \in Rings : dragging[r] /\ ~dragging'[r]) =>
          (PointerUp /\ UNCHANGED <<attached, moveListening>>)]_vars

\* a tick has removed the listeners of a ring that was dragged and released:
\* the ring is idle, detached, and turned by a move its listeners delivered
C12_Witness ==
  \E r \in Rings :
    /\ ~removed[r] /\ ~dragging[r] /\ ~attached[r] /\ ~moveListening[r]
    /\ lastNote = "none" /\ ~busy
    /\ startX[r] # 0
    /\ rotation[r][2] # startYaw[r]

\* the point 1.6 in front of the camera, its y floored at 1.2 above ring r's
\* original height
C13_Target(r) ==
  LET y == cameraPos[2] + (16 * cameraDir[2]) \div 10
  IN <<cameraPos[1] + (16 * cameraDir[1]) \div 10,
       IF y >= scenePos(r)[2] + 1200 THEN y ELSE scenePos(r)[2] + 1200,
       cameraPos[3] + (16 * cameraDir[3]) \div 10>>

\* C13: on the step that completes a focus animation of ring r, r's position
\* is the target (camera position + 1.6 * camera direction, y floored at
\* original y + 1.2) and each axis of r's scale is 1.45 times the baseline
\* scale, on every focus of the ring.
C13_FocusEndState ==
  [][\A r \in Rings :
       (~isFocused[r] /\ isFocused'[r]) =>
         /\ position'[r] = C13_Target(r)
         /\ \A i \in 1..3 : 100 * scale'[r][i] = 145 * sceneScale(r)[i]
         /\ ~busy' /\ ~isAnimating'[r]]_vars

\* ring r has just completed its second focus animation, and the floor on the
\* target height applied to it
C13_Witness ==
  \E r \in Rings :
    /\ emitted = [note |-> "show", ring |-> r]
    /\ focusCount[r] = 2
    /\ isFocused[r]
    /\ position[r][2] = scenePos(r)[2] + 1200
    /\ position[r][2] > cameraPos[2]

\* C14: a pending animation of ring r started at t0 stays pending, with the
\* session busy and no notification emitted, over every frame whose
\* timestamp is below t0 + duration; the first frame at or above
\* t0 + duration completes it, clears busy and emits r's show (focus) or hide
\* (close) notification; and no other step clears busy or emits a
\* notification.
C14_FixedWindow ==
  [][/\ FrameStep => \A r \in Rings : Pending(r) =>
          IF now < anim[r].t0 + duration
            THEN /\ anim'[r] = anim[r]
                 /\ busy /\ busy'
                 /\ isAnimating'[r]
                 /\ emitted' = NoNote
                 /\ lastNote' = lastNote
            ELSE /\ anim'[r] = NoAnim
                 /\ ~busy'
                 /\ ~isAnimating'[r]
                 /\ emitted' = [note |-> IF anim[r].kind = "animate" THEN "show"
                                                                     ELSE "hide",
                                ring |-> r]
     /\ ((busy /\ ~busy') \/ emitted'.note # "none" \/ lastNote' # lastNote) =>
          /\ FrameStep
          /\ \E r \in Rings : Pending(r) /\ ~(now < anim[r].t0 + duration)
     /\ \A r \in Rings : Pending(r) => busy]_vars

\* ring r's animation, started by a handler that sampled t0 after the frame
\* timestamp, has run frames below t0 + duration, the next frame is still
\* below it, and the one after is not
C14_Witness ==
  \E r \in Rings :
    /\ Pending(r) /\ busy
    /\ position[r] # anim[r].startPos
    /\ now > anim[r].t0
    /\ now < anim[r].t0 + duration
    /\ ~(now + FrameMs < anim[r].t0 + duration)

\* C15: once ring r's components are removed, no click, close notification,
\* pointer-down, pointer-move, pointer-up or further removal changes r's
\* flags, transform, drag fields or pending callback, none makes r the
\* manager's focused element, and busy changes only with the callback of a
\* ring that is still in the scene; remove() leaves no move listener of r
\* installed.
C15_RemovedRingInert ==
  [][/\ \A r \in Rings : (removed[r] /\ InputEvent) =>
          /\ isFocused'[r] = isFocused[r]
          /\ isAnimating'[r] = isAnimating[r]
          /\ position'[r] = position[r]
          /\ scale'[r] = scale[r]
          /\ rotation'[r] = rotation[r]
          /\ dragging'[r] = dragging[r]
          /\ startX'[r] = startX[r]
          /\ startYaw'[r] = startYaw[r]
          /\ attached'[r] = attached[r]
          /\ anim'[r] = anim[r]
          /\ focusedEl' = r => focusedEl = r
     /\ (InputEvent /\ busy' # busy) =>
          \E q \in Rings : ~removed[q] /\ anim'[q] # anim[q]
     /\ \A r \in Rings : removed'[r] => ~moveListening'[r]
     /\ \A r \in Rings : removed[r] => removed'[r]]_vars

\* ring r was removed while dragging with its move listeners attached, and a
\* pointer-up has come since: it ended the drag of another ring, whose
\* listeners are still attached, and left r's drag fields alone
C15_Witness ==
  \E r, q \in Rings :
    /\ removed[r] /\ dragging[r] /\ attached[r] /\ ~moveListening[r]
    /\ ~removed[q] /\ ~dragging[q] /\ attached[q]

\* C16: after every pointer-up no ring of the scene has dragging = TRUE; a
\* ring starts dragging only by an accepted pointer-down on it; and a
\* pointer-move leaves the rotation of every ring that is not dragging
\* unchanged.
C16_PointerUpEndsDrags ==
  [][/\ PointerUp => \A r \in Rings : ~removed[r] => ~dragging'[r]
     /\ \A r \in Rings :
          (~dragging[r] /\ dragging'[r]) =>
            /\ ~busy /\ ~removed[r]
            /\ \E x \in PointerXs : PointerDown(r, x)
     /\ \A x \in PointerXs : PointerMove(x) =>
          \A r \in Rings :
            (~dragging[r] \/ removed[r]) => rotation'[r] = rotation[r]]_vars

\* a pointer-up has ended the drags of two rings at once: both were dragging
\* at the last tick, which installed their move listeners, and neither is
\* dragging now
C16_Witness ==
  \E r, q \in Rings :
    /\ r # q
    /\ ~removed[r] /\ ~dragging[r] /\ moveListening[r] /\ startX[r] # 0
    /\ ~removed[q] /\ ~dragging[q] /\ moveListening[q] /\ startX[q] # 0

\* C17: whenever some ring is in the Focused state (isFocused, not
\* animating), the notification emitted last is 'show-close-button'.
C17_CloseControlShown ==
  (\E r \in Rings : isFocused[r] /\ ~isAnimating[r]) => lastNote = "show"

\* C18: the manager's focused element is ring r exactly if r is focused or
\* animating, and is null exactly if no ring is.
C18_ManagerAgreesWithFlags ==
  /\ \A r \in Rings : (focusedEl = r) <=> Active(r)
  /\ (focusedEl = NoEl) <=> (\A r \in Rings : ~Active(r))

\* x lies between a and b
Between(x, a, b) == (a <= x /\ x <= b) \/ (b <= x /\ x <= a)

\* C19: on every frame the progress t of each pending callback lies in
\* 0..1 (0..100 in hundredths), and the position and scale it writes lie
\* between the start and the target on every axis.
C19_ProgressInRange ==
  [][Frame => \A r \in Rings : Pending(r) =>
       /\ progress(now, anim[r].t0) \in 0..100
       /\ \A i \in 1..3 :
            /\ Between(position'[r][i], anim[r].startPos[i], anim[r].endPos[i])
            /\ Between(scale'[r][i], anim[r].startScale[i], anim[r].endScale[i])]_vars

====
